---- MODULE Spec2Model ----
(***************************************************************************)
(* GO-RTCS: the single-room WebSocket relay of src/server/main.go.         *)
(* One wsHandler goroutine per connection, the shared connectedClients map *)
(* guarded by clientsMutex, and the peers on the other side of each        *)
(* transport.  Payloads are sequences of byte values.                      *)
(***************************************************************************)
EXTENDS Integers, Sequences, FiniteSets, TLC

(* ------------------------------ bounds --------------------------------- *)
\* number of connections (wsHandler invocations) in a run
NumConns == 3
\* frames the peers send in a run, all connections together
MaxFrames == 2
\* connections accepted plus frames sent in a run: three connections with
\* one frame, or two connections with two frames
MaxLoad == 4

(* ----------------------------- constants ------------------------------- *)
\* const maxMessageSize = 50; conn.SetReadLimit(maxMessageSize)
maxMessageSize == 50
\* clientId before uuid.New() has run
NoId == 0

Conns == 1 .. NumConns
\* the values uuid.New().String() can return, one per admission at least
Ids == 1 .. NumConns

(* --------------------------- payload bytes ----------------------------- *)
Oversize == [i \in 1 .. (maxMessageSize + 1) |-> 97]
\* the frames a peer sends: empty, spaces only, a tab, text with a quote,
\* a byte that is not valid UTF-8, and a frame one byte over the read limit
Frames ==
  { <<>>, <<32, 32>>, <<9>>, <<97, 34>>, <<255>>, Oversize }

\* strings.ReplaceAll(msgString, " ", "")
RECURSIVE ReplaceAllSpaces(_)
ReplaceAllSpaces(s) ==
  IF s = <<>> THEN <<>>
  ELSE IF Head(s) = 32 THEN ReplaceAllSpaces(Tail(s))
  ELSE <<Head(s)>> \o ReplaceAllSpaces(Tail(s))

\* len(strings.ReplaceAll(msgString, " ", "")) == 0
IsEmptyMessage(msg) == Len(ReplaceAllSpaces(msg)) = 0

\* a connection on which SetReadLimit was never called
NoReadLimit(frame) == FALSE

\* conn.SetReadLimit: ReadMessage fails on a frame longer than the limit
ExceedsReadLimit(frame) == Len(frame) > maxMessageSize

(* ---------------------------- encoding/json ---------------------------- *)
HexDigit(n) == IF n < 10 THEN 48 + n ELSE 87 + n

\* an encoder that copies every byte as it is
EscapeNothing(b) == <<b>>

\* one byte of a Go string as json.Marshal writes it inside a JSON string
EscapeByte(b) ==
  IF b = 34 THEN <<92, 34>>
  ELSE IF b = 92 THEN <<92, 92>>
  ELSE IF b = 10 THEN <<92, 110>>
  ELSE IF b = 13 THEN <<92, 114>>
  ELSE IF b = 9 THEN <<92, 116>>
  ELSE IF b < 32 \/ b \in {60, 62, 38}
    THEN <<92, 117, 48, 48, HexDigit(b \div 16), HexDigit(b % 16)>>
  ELSE IF b >= 128 THEN <<92, 117, 102, 102, 102, 100>>
  ELSE <<b>>

RECURSIVE EscapeString(_)
EscapeString(s) ==
  IF s = <<>> THEN <<>> ELSE EscapeByte(Head(s)) \o EscapeString(Tail(s))

JsonQuote(s) == <<34>> \o EscapeString(s) \o <<34>>

KeySenderUUID == <<83, 101, 110, 100, 101, 114, 85, 85, 73, 68>>
KeyMessage == <<77, 101, 115, 115, 97, 103, 101>>

\* uuid.New().String(): an ASCII token that needs no escaping
IdString(id) == <<117, 48 + id>>

\* json.Marshal(currentBroadcast)
MarshalBroadcast(b) ==
  <<123>> \o JsonQuote(KeySenderUUID) \o <<58>> \o JsonQuote(b.SenderUUID)
    \o <<44>> \o JsonQuote(KeyMessage) \o <<58>> \o JsonQuote(b.Message)
    \o <<125>>

\* BroadcastMessage{SenderUUID: clientId, Message: msgString}
BroadcastMessage(id, msgString) ==
  [SenderUUID |-> IdString(id), Message |-> msgString]

(* The receiving side: a JSON decoder for the object json.Marshal wrote.  *)
(* No code of the server; the properties use it to say what a recipient  *)
(* reads out of the bytes written to it.                                 *)
HexValue(c) == IF c >= 97 THEN c - 87 ELSE c - 48

Utf8(cp) ==
  IF cp < 128 THEN <<cp>>
  ELSE IF cp < 2048 THEN <<192 + (cp \div 64), 128 + (cp % 64)>>
  ELSE <<224 + (cp \div 4096), 128 + ((cp \div 64) % 64), 128 + (cp % 64)>>

Unescape(c) ==
  IF c = 110 THEN 10 ELSE IF c = 114 THEN 13 ELSE IF c = 116 THEN 9 ELSE c

RECURSIVE JsonUnescape(_)
JsonUnescape(s) ==
  IF s = <<>> THEN <<>>
  ELSE IF Head(s) # 92 THEN <<Head(s)>> \o JsonUnescape(Tail(s))
  ELSE IF s[2] = 117
    THEN Utf8(4096 * HexValue(s[3]) + 256 * HexValue(s[4])
              + 16 * HexValue(s[5]) + HexValue(s[6]))
           \o JsonUnescape(SubSeq(s, 7, Len(s)))
  ELSE <<Unescape(s[2])>> \o JsonUnescape(SubSeq(s, 3, Len(s)))

\* index of the quote closing the JSON string whose content starts at i
RECURSIVE StringEnd(_, _)
StringEnd(s, i) ==
  IF s[i] = 34 THEN i
  ELSE IF s[i] = 92 THEN StringEnd(s, i + 2)
  ELSE StringEnd(s, i + 1)

\* the JSON string opening at position i: its decoded value and what follows
ReadString(s, i) ==
  LET e == StringEnd(s, i + 1)
  IN [val |-> JsonUnescape(SubSeq(s, i + 1, e - 1)), next |-> e + 1]

\* json.Unmarshal of the two-field object into a BroadcastMessage
UnmarshalBroadcast(bytes) ==
  LET k1 == ReadString(bytes, 2)
      v1 == ReadString(bytes, k1.next + 1)
      k2 == ReadString(bytes, v1.next + 1)
      v2 == ReadString(bytes, k2.next + 1)
  IN [SenderUUID |-> v1.val, Message |-> v2.val]

(* ------------------------------- state --------------------------------- *)
VARIABLES
  lifecycle,         \* the server process: "Running" or "Stopped"
  pc,                \* where each wsHandler goroutine stands
  clientId,          \* each handler's clientId (NoId before uuid.New())
  connectedClients,  \* the registry: clientId -> connection
  clientsMutex,      \* the handlers holding clientsMutex.Lock()
  count,             \* each handler's local count := len(connectedClients)
  sizeAtMutation,    \* len(connectedClients) right after the handler's edit
  msg,               \* the frame ReadMessage took from the transport
  cur,               \* the number of that frame among all frames sent
  nframes,           \* frames the peers have sent so far
  todo,              \* records the range loop has still to visit
  failed,            \* records whose WriteMessage failed in this fan-out
  peer,              \* the client side: "active", "silent" or "gone"
  closed,            \* conn.Close() was called by the server
  outbox             \* what WriteMessage put on each open transport, in order

vars ==
  << lifecycle, pc, clientId, connectedClients, clientsMutex, count,
     sizeAtMutation, msg, cur, nframes, todo, failed, peer, closed,
     outbox >>

Init ==
  /\ lifecycle = "Running"
  /\ pc = [h \in Conns |-> "idle"]
  /\ clientId = [h \in Conns |-> NoId]
  /\ connectedClients = << >>
  /\ clientsMutex = {}
  /\ count = [h \in Conns |-> 0]
  /\ sizeAtMutation = [h \in Conns |-> 0]
  /\ msg = [h \in Conns |-> << >>]
  /\ cur = [h \in Conns |-> 0]
  /\ nframes = 0
  /\ todo = [h \in Conns |-> {}]
  /\ failed = [h \in Conns |-> {}]
  /\ peer = [h \in Conns |-> "active"]
  /\ closed = [h \in Conns |-> FALSE]
  /\ outbox = [h \in Conns |-> << >>]

(* ------------------------------ helpers -------------------------------- *)
\* the identities minted so far
MintedIds == { clientId[h] : h \in Conns } \ {NoId}

\* a key that several connections can share, as r.RemoteAddr was
SharedKey(minted) == Ids

\* uuid.New(): a value no earlier call returned.  The server only stores
\* identities and compares them for equality, so the first unused value
\* stands for whichever fresh value the generator returns
NewUUID(minted) ==
  { i \in Ids \ minted : \A j \in Ids \ minted : i <= j }

\* what the run has asked of the server so far: connections and frames
Load == Cardinality({ h \in Conns : pc[h] # "idle" }) + nframes

\* connections are numbered in the order the HTTP server hands them to
\* wsHandler
NextAccepted(h) == \A g \in Conns : g < h => pc[g] # "idle"

\* connectedClients[clientId] = conn
MapInsert(m, id, conn) ==
  [k \in DOMAIN m \cup {id} |-> IF k = id THEN conn ELSE m[k]]

\* a teardown that forgets the delete
MapDeleteNothing(m, id) == m

\* a removal that evicts some record when the key is absent
MapDeleteOrEvict(m, id) ==
  LET gone == IF id \in DOMAIN m \/ DOMAIN m = {} THEN {id}
              ELSE {CHOOSE k \in DOMAIN m : TRUE}
  IN [k \in DOMAIN m \ gone |-> m[k]]

\* delete(connectedClients, clientId)
MapDelete(m, id) == [k \in DOMAIN m \ {id} |-> m[k]]

\* len(connectedClients)
MapLen(m) == Cardinality(DOMAIN m)

\* a lock that lets a caller in while its holders are all in a fan-out
MutexSharedByFanOuts ==
  \A g \in clientsMutex : pc[g] \in {"bcast", "blocked", "bcastDone"}

\* clientsMutex.Lock() can proceed
MutexFree == clientsMutex = {}

\* the results clientConn.WriteMessage can have on connection c; no write
\* deadline is ever set, so a write to a peer that has stopped reading
\* either fits the transport's buffers or never returns
WriteOutcomes(c) ==
  IF closed[c] THEN {"err"}
  ELSE IF peer[c] = "gone" THEN {"ok", "err"}
  ELSE IF peer[c] = "silent" THEN {"ok", "block"}
  ELSE {"ok"}

\* a transport that hands the newest frame over first
SendFirst(q, e) == <<e>> \o q

\* WriteMessage puts the frame on the transport behind the earlier ones
Send(q, e) == Append(q, e)

\* conn.Close()
ConnClose(cl, h) == [cl EXCEPT ![h] = TRUE]

Serving == lifecycle = "Running"

(* ------------------------- wsHandler: admission ------------------------ *)
\* upgrader.Upgrade succeeds; SetReadLimit; clientId := uuid.New().String()
Upgrade(h) ==
  /\ Serving /\ pc[h] = "idle" /\ NextAccepted(h) /\ Load < MaxLoad
  /\ \E id \in NewUUID(MintedIds) :
       clientId' = [clientId EXCEPT ![h] = id]
  /\ pc' = [pc EXCEPT ![h] = "upgraded"]
  /\ UNCHANGED << lifecycle, connectedClients, clientsMutex, count,
                  sizeAtMutation, msg, cur, nframes, todo, failed, peer,
                  closed, outbox >>

\* upgrader.Upgrade fails: log and return, nothing registered
UpgradeError(h) ==
  /\ Serving /\ pc[h] = "idle" /\ NextAccepted(h)
  /\ pc' = [pc EXCEPT ![h] = "failed"]
  /\ UNCHANGED << lifecycle, clientId, connectedClients, clientsMutex, count,
                  sizeAtMutation, msg, cur, nframes, todo, failed, peer,
                  closed, outbox >>

\* the mutex given back right after the insert, before the count is read
ReleasedAfterInsert(h) == {}

\* the mutex after the insert: still held, until Unlock
HeldAfterInsert(h) == {h}

\* clientsMutex.Lock(); connectedClients[clientId] = conn
AdmitInsert(h) ==
  /\ Serving /\ pc[h] = "upgraded" /\ MutexFree
  /\ clientsMutex' = HeldAfterInsert(h)
  /\ connectedClients' = MapInsert(connectedClients, clientId[h], h)
  /\ sizeAtMutation' = [sizeAtMutation EXCEPT ![h] = MapLen(connectedClients')]
  /\ pc' = [pc EXCEPT ![h] = "admitInserted"]
  /\ UNCHANGED << lifecycle, clientId, count, msg, cur, nframes, todo,
                  failed, peer, closed, outbox >>

\* count := len(connectedClients)
AdmitCount(h) ==
  /\ Serving /\ pc[h] = "admitInserted"
  /\ count' = [count EXCEPT ![h] = MapLen(connectedClients)]
  /\ pc' = [pc EXCEPT ![h] = "admitCounted"]
  /\ UNCHANGED << lifecycle, clientId, connectedClients, clientsMutex,
                  sizeAtMutation, msg, cur, nframes, todo, failed, peer,
                  closed, outbox >>

\* clientsMutex.Unlock(); logger.Info("Client connected", ..., "total", count)
AdmitUnlock(h) ==
  /\ Serving /\ pc[h] = "admitCounted"
  /\ clientsMutex' = clientsMutex \ {h}
  /\ count' = [count EXCEPT ![h] = 0]
  /\ sizeAtMutation' = [sizeAtMutation EXCEPT ![h] = 0]
  /\ pc' = [pc EXCEPT ![h] = "read"]
  /\ UNCHANGED << lifecycle, clientId, connectedClients, msg, cur, nframes,
                  todo, failed, peer, closed, outbox >>

(* ------------------------- wsHandler: read loop ------------------------ *)
\* conn.ReadMessage() returns the peer's next frame, or fails on a frame over
\* the read limit; an empty message is skipped, any other goes to broadcast
ReadFrame(h) ==
  /\ Serving /\ pc[h] = "read" /\ peer[h] = "active"
  /\ nframes < MaxFrames /\ Load < MaxLoad
  /\ nframes' = nframes + 1
  /\ \E f \in Frames :
       IF ~ExceedsReadLimit(f) /\ IsEmptyMessage(f)
         THEN \* continue: the frame is dropped and never looked at again
              /\ msg' = [msg EXCEPT ![h] = << >>]
              /\ cur' = [cur EXCEPT ![h] = 0]
              /\ pc' = [pc EXCEPT ![h] = "read"]
         ELSE /\ msg' = [msg EXCEPT ![h] = f]
              /\ cur' = [cur EXCEPT ![h] = nframes']
              /\ pc' = [pc EXCEPT ![h] =
                          IF ExceedsReadLimit(f) THEN "deferStart"
                          ELSE "bcastWait"]
  /\ UNCHANGED << lifecycle, clientId, connectedClients, clientsMutex, count,
                  sizeAtMutation, todo, failed, peer, closed,
                  outbox >>

\* a handler that closes its transport as soon as the read fails, before
\* its record is deleted
ReadErrorCloseFirst(h) ==
  /\ Serving /\ pc[h] = "read" /\ peer[h] = "gone"
  /\ closed' = ConnClose(closed, h)
  /\ pc' = [pc EXCEPT ![h] = "deferStart"]
  /\ UNCHANGED << lifecycle, clientId, connectedClients, clientsMutex, count,
                  sizeAtMutation, msg, cur, nframes, todo, failed, peer,
                  outbox >>

\* conn.ReadMessage() fails because the peer closed: log and break
ReadError(h) ==
  /\ Serving /\ pc[h] = "read" /\ peer[h] = "gone"
  /\ pc' = [pc EXCEPT ![h] = "deferStart"]
  /\ UNCHANGED << lifecycle, clientId, connectedClients, clientsMutex, count,
                  sizeAtMutation, msg, cur, nframes, todo, failed, peer,
                  closed, outbox >>

(* ------------------------- wsHandler: broadcast ------------------------ *)
\* a fan-out under clientsMutex.RLock(): it shares the lock with the
\* fan-outs already running
BcastRLock(h) ==
  /\ Serving /\ pc[h] = "bcastWait"
  /\ \A g \in clientsMutex : pc[g] \in {"bcast", "blocked", "bcastDone"}
  /\ clientsMutex' = clientsMutex \cup {h}
  /\ todo' = [todo EXCEPT ![h] = DOMAIN connectedClients]
  /\ failed' = [failed EXCEPT ![h] = {}]
  /\ pc' = [pc EXCEPT ![h] =
              IF DOMAIN connectedClients = {} THEN "bcastDone" ELSE "bcast"]
  /\ UNCHANGED << lifecycle, clientId, connectedClients, count,
                  sizeAtMutation, msg, cur, nframes, peer, closed,
                  outbox >>

\* clientsMutex.Lock(); the range loop starts over the map as it is now
BcastLock(h) ==
  /\ Serving /\ pc[h] = "bcastWait" /\ MutexFree
  /\ clientsMutex' = {h}
  /\ todo' = [todo EXCEPT ![h] = DOMAIN connectedClients]
  /\ failed' = [failed EXCEPT ![h] = {}]
  /\ pc' = [pc EXCEPT ![h] =
              IF DOMAIN connectedClients = {} THEN "bcastDone" ELSE "bcast"]
  /\ UNCHANGED << lifecycle, clientId, connectedClients, count,
                  sizeAtMutation, msg, cur, nframes, peer, closed,
                  outbox >>

\* the records the range loop may visit next: every one still in the map,
\* the sender's own included, in an order Go leaves unspecified
RangeNext(h) == todo[h]

\* where the loop goes after a failed WriteMessage: break
AfterWriteError(rest) == "bcastDone"

\* msgBytes of json.Marshal(currentBroadcast), as handed to WriteMessage
WireBytes(h) == MarshalBroadcast(BroadcastMessage(clientId[h], msg[h]))

\* one iteration: json.Marshal(currentBroadcast), clientConn.WriteMessage
BcastWrite(h) ==
  /\ Serving /\ pc[h] = "bcast" /\ todo[h] # {}
  /\ \E id \in RangeNext(h) :
       LET c == connectedClients[id]
           rest == todo[h] \ {id}
       IN \E r \in WriteOutcomes(c) :
            IF r = "block"
              THEN \* WriteMessage never returns; the mutex stays locked
                   /\ pc' = [pc EXCEPT ![h] = "blocked"]
                   /\ UNCHANGED << todo, failed, outbox >>
              ELSE
            /\ todo' = [todo EXCEPT ![h] = rest]
            /\ IF r = "ok"
                 THEN /\ outbox' = [outbox EXCEPT ![c] =
                            Send(@, [from |-> clientId[h], seq |-> cur[h],
                                     bytes |-> WireBytes(h)])]
                      /\ pc' = [pc EXCEPT ![h] =
                                  IF rest = {} THEN "bcastDone" ELSE "bcast"]
                      /\ UNCHANGED failed
                 ELSE /\ failed' = [failed EXCEPT ![h] = @ \cup {id}]
                      /\ pc' = [pc EXCEPT ![h] =
                                  IF rest = {} THEN "bcastDone"
                                  ELSE AfterWriteError(rest)]
                      /\ UNCHANGED outbox
  /\ UNCHANGED << lifecycle, clientId, connectedClients, clientsMutex, count,
                  sizeAtMutation, msg, cur, nframes, peer, closed >>

\* clientsMutex.Unlock() after the loop; back to ReadMessage
BcastUnlock(h) ==
  /\ Serving /\ pc[h] = "bcastDone"
  /\ clientsMutex' = clientsMutex \ {h}
  /\ todo' = [todo EXCEPT ![h] = {}]
  /\ failed' = [failed EXCEPT ![h] = {}]
  /\ msg' = [msg EXCEPT ![h] = << >>]
  /\ cur' = [cur EXCEPT ![h] = 0]
  /\ pc' = [pc EXCEPT ![h] = "read"]
  /\ UNCHANGED << lifecycle, clientId, connectedClients, count,
                  sizeAtMutation, nframes, peer, closed, outbox >>

(* ---------------------- wsHandler: deferred teardown ------------------- *)
\* clientsMutex.Lock(); delete(connectedClients, clientId)
DeferDelete(h) ==
  /\ Serving /\ pc[h] = "deferStart" /\ MutexFree
  /\ clientsMutex' = {h}
  /\ connectedClients' = MapDelete(connectedClients, clientId[h])
  /\ sizeAtMutation' = [sizeAtMutation EXCEPT ![h] = MapLen(connectedClients')]
  /\ pc' = [pc EXCEPT ![h] = "deferDeleted"]
  /\ UNCHANGED << lifecycle, clientId, count, msg, cur, nframes, todo, failed,
                  peer, closed, outbox >>

\* count := len(connectedClients)
DeferCount(h) ==
  /\ Serving /\ pc[h] = "deferDeleted"
  /\ count' = [count EXCEPT ![h] = MapLen(connectedClients)]
  /\ pc' = [pc EXCEPT ![h] = "deferCounted"]
  /\ UNCHANGED << lifecycle, clientId, connectedClients, clientsMutex,
                  sizeAtMutation, msg, cur, nframes, todo, failed, peer,
                  closed, outbox >>

\* clientsMutex.Unlock(); logger.Info("Total active clients", "total", count)
DeferUnlock(h) ==
  /\ Serving /\ pc[h] = "deferCounted"
  /\ clientsMutex' = clientsMutex \ {h}
  /\ count' = [count EXCEPT ![h] = 0]
  /\ sizeAtMutation' = [sizeAtMutation EXCEPT ![h] = 0]
  /\ pc' = [pc EXCEPT ![h] = "deferUnlocked"]
  /\ UNCHANGED << lifecycle, clientId, connectedClients, msg, cur, nframes,
                  todo, failed, peer, closed, outbox >>

\* conn.Close(): the transport is gone, for the peer too
DeferClose(h) ==
  /\ Serving /\ pc[h] = "deferUnlocked"
  /\ closed' = ConnClose(closed, h)
  /\ peer' = [peer EXCEPT ![h] = "gone"]
  /\ outbox' = [outbox EXCEPT ![h] = << >>]
  /\ pc' = [pc EXCEPT ![h] = "done"]
  /\ UNCHANGED << lifecycle, clientId, connectedClients, clientsMutex, count,
                  sizeAtMutation, msg, cur, nframes, todo, failed >>

(* ------------------------------ the peers ------------------------------ *)
\* a handler whose connection exists and is not yet torn down
Live(h) == pc[h] \notin {"idle", "failed", "done"}

\* the connection is where the server can tell an open peer from a gone one:
\* its handler waits in ReadMessage, or its record is there to be written to
Exposed(h) == pc[h] = "read" \/ clientId[h] \in DOMAIN connectedClients

\* the client closes its side (close frame or connection loss)
PeerClose(h) ==
  /\ Serving /\ Live(h) /\ Exposed(h) /\ peer[h] = "active"
  /\ peer' = [peer EXCEPT ![h] = "gone"]
  /\ UNCHANGED << lifecycle, pc, clientId, connectedClients, clientsMutex,
                  count, sizeAtMutation, msg, cur, nframes, todo, failed,
                  closed, outbox >>

\* the client stops sending frames and answering, without closing; the
\* server can notice it only while it waits in ReadMessage
PeerStall(h) ==
  /\ Serving /\ pc[h] = "read" /\ peer[h] = "active"
  /\ peer' = [peer EXCEPT ![h] = "silent"]
  /\ UNCHANGED << lifecycle, pc, clientId, connectedClients, clientsMutex,
                  count, sizeAtMutation, msg, cur, nframes, todo, failed,
                  closed, outbox >>

(* ------------------------------- main ---------------------------------- *)
\* main installs no signal handler: a termination signal ends the process
\* at once.  Every goroutine is killed where it stands, no deferred teardown
\* runs, and the process memory (registry, mutex, locals) is gone.
Signal ==
  /\ Serving
  /\ lifecycle' = "Stopped"
  /\ pc' = [h \in Conns |-> IF Live(h) THEN "killed" ELSE pc[h]]
  /\ connectedClients' = << >>
  /\ clientsMutex' = {}
  /\ count' = [h \in Conns |-> 0]
  /\ sizeAtMutation' = [h \in Conns |-> 0]
  /\ msg' = [h \in Conns |-> << >>]
  /\ cur' = [h \in Conns |-> 0]
  /\ todo' = [h \in Conns |-> {}]
  /\ failed' = [h \in Conns |-> {}]
  /\ peer' = [h \in Conns |-> IF Live(h) THEN "gone" ELSE peer[h]]
  /\ outbox' = [h \in Conns |-> << >>]
  /\ UNCHANGED << clientId, nframes, closed >>

\* the steps of handler h that need nothing from its peer or the mutex
HandlerStep(h) ==
  \/ AdmitCount(h) \/ AdmitUnlock(h)
  \/ ReadError(h) \/ BcastWrite(h) \/ BcastUnlock(h)
  \/ DeferCount(h) \/ DeferUnlock(h) \/ DeferClose(h)

\* the steps of handler h that wait for clientsMutex
LockStep(h) == AdmitInsert(h) \/ BcastLock(h) \/ DeferDelete(h)

\* the steps that the outside world decides
WorldStep(h) ==
  \/ Upgrade(h) \/ UpgradeError(h) \/ ReadFrame(h)
  \/ PeerClose(h) \/ PeerStall(h)

Serve == \E h \in Conns : HandlerStep(h) \/ LockStep(h) \/ WorldStep(h)

Next == Serve \/ Signal

Spec == Init /\ [][Next]_vars

\* the server left running, every goroutine scheduled and the mutex fair
FairSpec ==
  /\ Init /\ [][Serve]_vars
  /\ \A h \in Conns : WF_vars(HandlerStep(h)) /\ SF_vars(LockStep(h))

(* ===================== properties of the relay ========================= *)
\* message (from, seq) is among what was written to connection c
Delivered(c, from, seq) ==
  \E i \in 1 .. Len(outbox[c]) :
    outbox[c][i].from = from /\ outbox[c][i].seq = seq

\* handler h is inside the fan-out of the frame it read
InFanOut(h) == pc[h] \in {"bcast", "blocked", "bcastDone"}

\* the entries of the frame handler h is fanning out, on any transport
EntriesOf(h) ==
  { e \in UNION { { outbox[c][i] : i \in 1 .. Len(outbox[c]) } : c \in Conns } :
      e.from = clientId[h] /\ e.seq = cur[h] }

\* the connection has a record in the registry
InRegistry(h) ==
  \E id \in DOMAIN connectedClients : connectedClients[id] = h

\* the server holds the connection's transport and has not closed it
HandleOpen(h) ==
  pc[h] \notin {"idle", "failed", "done", "killed"} /\ ~closed[h]

WhitespaceOnly(s) == \A i \in 1 .. Len(s) : s[i] \in {9, 10, 11, 12, 13, 32}

\* every byte is ASCII; the frames of the model hold no multi-byte sequences
ValidUtf8(s) == \A i \in 1 .. Len(s) : s[i] < 128

\* the payload as a decoder sees it when invalid bytes became U+FFFD
WithReplacementChar(s) ==
  [i \in 1 .. Len(s) |-> IF s[i] < 128 THEN <<s[i]>> ELSE <<239, 191, 189>>]

RECURSIVE Flatten(_)
Flatten(ss) == IF ss = <<>> THEN <<>> ELSE Head(ss) \o Flatten(Tail(ss))

(* C1: when the fan-out of a message ends, every registered connection     *)
(* other than the sender whose own write did not fail has been written the *)
(* message, whatever happened to the writes on the other recipients.       *)
C1_FailureIsolated ==
  \A h \in Conns :
    pc[h] = "bcastDone" =>
      \A id \in DOMAIN connectedClients :
        (id # clientId[h] /\ id \notin failed[h])
          => Delivered(connectedClients[id], clientId[h], cur[h])

(* C2: no transport is ever written a message that was read from that same *)
(* connection: the fan-out skips the sender.                               *)
C2_NoSelfEcho ==
  \A h \in Conns :
    \A i \in 1 .. Len(outbox[h]) : outbox[h][i].from # clientId[h]

(* C3: a terminal read error on a connection is contained to it: a frame   *)
(* over the read limit is never broadcast, the teardown removes exactly    *)
(* that connection's record (the registry shrinks by one), closes exactly  *)
(* that transport, and leaves every other record and transport as it was.  *)
C3_OversizeNeverSent ==
  \A h \in Conns :
    Len(msg[h]) > maxMessageSize =>
      /\ pc[h] \in {"deferStart", "deferDeleted", "deferCounted",
                    "deferUnlocked", "done", "killed"}
      /\ EntriesOf(h) = {}

C3_TeardownStep ==
  \A h \in Conns :
    /\ (pc[h] = "read" /\ pc'[h] = "deferStart")
         => /\ outbox' = outbox
            /\ connectedClients' = connectedClients
            /\ closed' = closed
    /\ (pc[h] = "deferStart" /\ pc'[h] = "deferDeleted")
         => /\ clientId[h] \in DOMAIN connectedClients
            /\ DOMAIN connectedClients' = DOMAIN connectedClients \ {clientId[h]}
            /\ MapLen(connectedClients') = MapLen(connectedClients) - 1
            /\ \A k \in DOMAIN connectedClients' :
                 connectedClients'[k] = connectedClients[k]
            /\ closed' = closed /\ outbox' = outbox
    /\ (pc[h] = "deferUnlocked" /\ pc'[h] = "done")
         => /\ closed'[h]
            /\ \A g \in Conns \ {h} :
                 closed'[g] = closed[g] /\ outbox'[g] = outbox[g]
            /\ connectedClients' = connectedClients

C3_ReadErrorContained == [](C3_OversizeNeverSent) /\ [][C3_TeardownStep]_vars

\* an oversize frame tore its connection down while the two others stay
\* registered with open transports
C3_Witness ==
  \E h \in Conns :
    /\ msg[h] = Oversize /\ pc[h] = "done" /\ closed[h]
    /\ MapLen(connectedClients) = 2
    /\ \A g \in Conns \ {h} : InRegistry(g) /\ ~closed[g]

(* C4: a frame that is empty or holds only whitespace (spaces, tabs,       *)
(* newlines) is never fanned out: no handler enters the broadcast with it  *)
(* and nothing is written for it.                                          *)
C4_WhitespaceIsNoOp ==
  \A h \in Conns :
    WhitespaceOnly(msg[h]) =>
      pc[h] \notin {"bcastWait", "bcast", "bcastDone"} /\ EntriesOf(h) = {}

(* C5, as stated: a connection has a record in the registry exactly when   *)
(* its transport is open and not torn down.                                *)
C5_RegisteredIffOpen ==
  \A h \in Conns : InRegistry(h) <=> HandleOpen(h)

(* C5, amended: a record in the registry belongs to a connection whose     *)
(* handle the server has not closed, a finished handler has no record and  *)
(* a closed handle, and so the registry's count never exceeds the number   *)
(* of open handles.                                                        *)
C5_RegisteredOnlyIfOpen ==
  /\ \A id \in DOMAIN connectedClients :
       LET h == connectedClients[id]
       IN clientId[h] = id /\ HandleOpen(h)
  /\ \A h \in Conns : pc[h] = "done" => closed[h] /\ ~InRegistry(h)
  /\ MapLen(connectedClients) <= Cardinality({ h \in Conns : HandleOpen(h) })

\* one connection is open but not yet registered, one is registered, and
\* one has been removed and closed
C5_Witness ==
  \E h, g, k \in Conns :
    /\ pc[h] = "upgraded" /\ HandleOpen(h) /\ ~InRegistry(h)
    /\ InRegistry(g) /\ HandleOpen(g)
    /\ pc[k] = "done" /\ closed[k]

(* C6: the count a handler is about to log for its insert or its delete    *)
(* equals the size the registry had right after that edit.                 *)
C6_CountReadUnderLock ==
  \A h \in Conns :
    pc[h] \in {"admitCounted", "deferCounted"} => count[h] = sizeAtMutation[h]

\* a handler has read its count while one handler waits to insert and
\* another waits to delete
C6_Witness ==
  \E h, g, k \in Conns :
    /\ pc[h] \in {"admitCounted", "deferCounted"} /\ count[h] > 0
    /\ pc[g] = "upgraded" /\ pc[k] = "deferStart"

(* C7: a connection whose peer has gone silent is eventually removed from  *)
(* the registry and closed.                                                *)
C7_SilentPeerReaped ==
  \A h \in Conns : (peer[h] = "silent") ~> (pc[h] = "done" /\ closed[h])

(* C8: identities are never shared: two connections never hold the same    *)
(* clientId, an insert adds a new key and one record, and a delete leaves  *)
(* every other connection's record in place.                               *)
C8_DistinctIds ==
  \A h, g \in Conns :
    (h # g /\ clientId[h] # NoId /\ clientId[g] # NoId)
      => clientId[h] # clientId[g]

C8_MutationStep ==
  \A h \in Conns :
    /\ (pc[h] = "upgraded" /\ pc'[h] = "admitInserted")
         => /\ clientId[h] \notin DOMAIN connectedClients
            /\ MapLen(connectedClients') = MapLen(connectedClients) + 1
            /\ \A k \in DOMAIN connectedClients :
                 /\ k \in DOMAIN connectedClients'
                 /\ connectedClients'[k] = connectedClients[k]
    /\ (pc[h] = "deferStart" /\ pc'[h] = "deferDeleted")
         => \A k \in DOMAIN connectedClients :
              connectedClients[k] # h
                => /\ k \in DOMAIN connectedClients'
                   /\ connectedClients'[k] = connectedClients[k]

C8_FreshIdentity == [](C8_DistinctIds) /\ [][C8_MutationStep]_vars

\* a connection is admitted next to a registered one after a third one
\* has come and gone
C8_Witness ==
  \E h, g, k \in Conns :
    /\ pc[h] = "admitInserted" /\ MapLen(connectedClients) = 2
    /\ InRegistry(g) /\ g # h
    /\ pc[k] = "done"

(* C9, as stated: the bytes written to a recipient are the bytes of the    *)
(* frame read from the sender.                                             *)
C9_BytesUnmodified ==
  \A h \in Conns : InFanOut(h) => \A e \in EntriesOf(h) : e.bytes = msg[h]

(* C9, amended: the bytes written are a JSON object that decodes to the    *)
(* sender's identity and to the sender's payload, exactly when the payload *)
(* is valid UTF-8 and with U+FFFD for each invalid byte otherwise.         *)
C9_EnvelopeCarriesPayload ==
  \A h \in Conns :
    InFanOut(h) =>
      \A e \in EntriesOf(h) :
        LET d == UnmarshalBroadcast(e.bytes)
        IN /\ d.SenderUUID = IdString(clientId[h])
           /\ ValidUtf8(msg[h]) => d.Message = msg[h]
           /\ d.Message = Flatten(WithReplacementChar(msg[h]))

\* a payload holding a quote has been written to a connection other than
\* the sender's
C9_Witness ==
  \E h \in Conns :
    /\ InFanOut(h) /\ msg[h] = <<97, 34>>
    /\ \E c \in Conns \ {h} : Delivered(c, clientId[h], cur[h])

(* C10: once the server has stopped, every connection it had accepted has  *)
(* been closed by it: none was cut off with its handle still open.         *)
C10_DrainClosesEveryHandle ==
  lifecycle = "Stopped" =>
    \A h \in Conns : clientId[h] # NoId => (pc[h] = "done" /\ closed[h])

(* C11: removal is idempotent.  Deleting an identity that is not, or no    *)
(* longer, in the registry leaves its contents and its length as they are; *)
(* closing a closed handle changes nothing; a handler past its delete has  *)
(* no record left.                                                         *)
C11_RemoveIdempotent ==
  /\ \A id \in Ids :
       LET once == MapDelete(connectedClients, id)
       IN /\ MapDelete(once, id) = once
          /\ id \notin DOMAIN connectedClients =>
               /\ once = connectedClients
               /\ MapLen(once) = MapLen(connectedClients)
  /\ \A h \in Conns :
       /\ ConnClose(ConnClose(closed, h), h) = ConnClose(closed, h)
       /\ closed[h] => ConnClose(closed, h) = closed
       /\ pc[h] \in {"deferDeleted", "deferCounted", "deferUnlocked", "done"}
            => clientId[h] \notin DOMAIN connectedClients

\* while the server runs the registry shrinks only by the one record of a
\* handler running its deferred delete, and a handler enters its teardown
\* from the read loop only, never a second time
C11_OneDecrement ==
  /\ (lifecycle' = "Running"
        /\ MapLen(connectedClients') < MapLen(connectedClients)) =>
       \E h \in Conns :
         /\ pc[h] = "deferStart" /\ pc'[h] = "deferDeleted"
         /\ clientId[h] \in DOMAIN connectedClients
         /\ DOMAIN connectedClients' = DOMAIN connectedClients \ {clientId[h]}
         /\ MapLen(connectedClients') = MapLen(connectedClients) - 1
  /\ \A h \in Conns :
       (pc'[h] = "deferStart" /\ pc[h] # "deferStart") => pc[h] = "read"

C12_NoIoUnderLock ==
  \A h \in Conns :
    pc[h] \in {"bcast", "blocked"} =>
      /\ h \notin clientsMutex
      /\ \A g \in Conns \ {h} :
           pc[g] \in {"upgraded", "deferStart"} => MutexFree

(* C13: dead recipients are reaped.  Whenever a write of a fan-out to a    *)
(* recipient fails, that recipient's record is eventually out of the      *)
(* registry and its handle closed.                                         *)
C13_FailedRecipientReaped ==
  \A c \in Conns :
    (clientId[c] # NoId /\ \E h \in Conns : clientId[c] \in failed[h])
      ~> (clientId[c] \notin DOMAIN connectedClients /\ closed[c])

(* C14: every connection whose read fails with a terminal error is        *)
(* eventually out of the registry with its transport closed, whatever the *)
(* other handlers are doing.                                               *)
C14_ReadErrorTornDown ==
  \A h \in Conns :
    (pc[h] = "deferStart")
      ~> (clientId[h] \notin DOMAIN connectedClients /\ closed[h])

(* C15: per-sender order.  Of two frames of one sender written to the     *)
(* same recipient, the one the sender's transport produced first was       *)
(* written first.                                                          *)
C15_PerSenderOrder ==
  \A r \in Conns :
    \A i \in 1 .. Len(outbox[r]) : \A j \in 1 .. Len(outbox[r]) :
      (i < j /\ outbox[r][i].from = outbox[r][j].from)
        => outbox[r][i].seq < outbox[r][j].seq

\* a recipient holds two frames of one other sender
C15_Witness ==
  \E r \in Conns : \E a \in Conns \ {r} :
    /\ clientId[a] # NoId
    /\ Len(outbox[r]) >= 2
    /\ outbox[r][1].from = clientId[a] /\ outbox[r][2].from = clientId[a]
    /\ outbox[r][1].seq # outbox[r][2].seq

\* the connections a handler inside its range loop writes to: the ones it
\* has still to visit while it runs, the one its write is stuck on included
WriteTargets(h) ==
  IF pc[h] \in {"bcast", "blocked"}
    THEN { connectedClients[id] : id \in todo[h] }
    ELSE {}

(* C16: writes to one connection are mutually exclusive.  At no time are  *)
(* two handlers writing to the same connection's transport.                *)
C16_OneWriterPerConnection ==
  \A c \in Conns :
    Cardinality({ h \in Conns : c \in WriteTargets(h) }) <= 1

\* a handler is in its range loop with a write to a connection ahead while
\* another handler holds a frame for that same connection and waits for
\* the lock
C16_Witness ==
  \E h \in Conns : \E g \in Conns \ {h} : \E c \in Conns :
    /\ c \in WriteTargets(h)
    /\ pc[g] = "bcastWait" /\ msg[g] # << >>
    /\ \E id \in DOMAIN connectedClients : connectedClients[id] = c

(* C17: the server never writes to a connection it has closed.  Every      *)
(* record of the registry holds a handle the server has not closed, and    *)
(* so does every record a running fan-out has still to write to.           *)
C17_NoWriteAfterClose ==
  /\ \A id \in DOMAIN connectedClients : ~closed[connectedClients[id]]
  /\ \A h \in Conns : \A c \in WriteTargets(h) : ~closed[c]

\* a fan-out has writes ahead while the server has already closed another
\* connection
C17_Witness ==
  \E h \in Conns : \E g \in Conns \ {h} :
    /\ WriteTargets(h) # {}
    /\ closed[g] /\ pc[g] = "done"

(* C18: fan-outs are serialized.  Any two recipients that were both       *)
(* written two broadcast messages were written them in the same relative   *)
(* order.                                                                  *)
C18_CommonOrder ==
  \A c \in Conns : \A d \in Conns :
    \A i \in 1 .. Len(outbox[c]) : \A j \in 1 .. Len(outbox[c]) :
      \A k \in 1 .. Len(outbox[d]) : \A l \in 1 .. Len(outbox[d]) :
        (/\ i < j
         /\ outbox[c][i].seq = outbox[d][k].seq
         /\ outbox[c][j].seq = outbox[d][l].seq)
          => k < l

\* two connections have each been written the same two messages, which
\* came from two different senders
C18_Witness ==
  \E c \in Conns : \E d \in Conns \ {c} :
    /\ Len(outbox[c]) >= 2 /\ Len(outbox[d]) >= 2
    /\ outbox[c][1].seq = outbox[d][1].seq
    /\ outbox[c][2].seq = outbox[d][2].seq
    /\ outbox[c][1].from # outbox[c][2].from

====
